---------------------------- MODULE Spec2Model ----------------------------
(***************************************************************************)
(* Mify LLM editor: the chat web client (webapp/src/components/Chat.tsx)   *)
(* talking to the llm-worker service over its request/response API.        *)
(*                                                                         *)
(* The client part (the React state of the Chat component, its handlers    *)
(* and effects, and the requests they put in flight) is translated from    *)
(* Chat.tsx.  The service part (project store, message store and the agent *)
(* orchestrator's turn loop) is not among the available sources and is     *)
(* modelled from the design document, sections 3 to 7.                     *)
(*                                                                         *)
(* A handler runs atomically up to its next await; the continuation after  *)
(* the await is a separate action that fires when the response arrives.    *)
(* React commits the state updates of a handler, and runs the effects that *)
(* depend on them, before the next event is handled, so a state update and *)
(* the effect it triggers are one step.                                    *)
(***************************************************************************)
EXTENDS Integers, Sequences, FiniteSets, TLC

\* ------------------------------------------------------------- bounds
\* what the user does in one run: key strokes and clicks, all told
MaxActions == 4

\* the orchestrator's configured ceiling of tool-dispatch rounds per turn
MaxRounds == 2

\* ------------------------------------------------------------- values
\* useState<string>(''): no project selected
NoProject == 0

\* what the user can have in the input box; text is a sequence of characters
Inputs == { <<>>, <<" ">>, <<"a">> }

\* the names the user can give a new project
Names == { "n1", "n3" }

\* how a dispatched tool call can end: success, a validation failure, an
\* execution failure
Outcomes == { "ok", "invalid", "failed" }

\* a project record
ProjectOf(i, n) == [ id |-> i, name |-> n ]

\* the projects the service holds when the page is opened
InitialProjects == << ProjectOf(1, "n1"), ProjectOf(2, "n2") >>

\* the project lists the service can hold when the page is opened: none yet,
\* or some
InitialLists == { <<>>, InitialProjects }

\* String.prototype.trim, on a sequence of characters
RECURSIVE TrimLeft(_)
TrimLeft(s) ==
    IF s = <<>> THEN <<>>
    ELSE IF Head(s) = " " THEN TrimLeft(Tail(s)) ELSE s

RECURSIVE TrimRight(_)
TrimRight(s) ==
    IF s = <<>> THEN <<>>
    ELSE IF s[Len(s)] = " " THEN TrimRight(SubSeq(s, 1, Len(s) - 1)) ELSE s

Trim(s) == TrimRight(TrimLeft(s))

VARIABLES
    \* ---- Chat component state
    messages,               \* ChatMessage[]
    input,                  \* the input box
    isLoading,
    projects,               \* ChatProject[]
    activeProject,
    isNewProjectModalOpen,
    \* ---- requests in flight, each with the phase it is in
    projReqs,               \* GET  /chat/projects
    histReqs,               \* GET  /chat/history
    chatReqs,               \* POST /chat: the turn it runs on the service
    delReqs,                \* DELETE issued by clearChat
    newReqs,                \* POST /chat/projects
    \* ---- service state
    serverProjects,         \* project records, in creation order
    store,                  \* message records
    \* ---- bookkeeping
    nextId,                 \* chat requests sent so far
    acts,                   \* what the user has done so far
    appendLog,              \* per project: what was appended since the last clear
    clearRun                \* per project: clears served since the last append, to 2

client == << messages, input, isLoading, projects, activeProject,
             isNewProjectModalOpen >>
net    == << projReqs, histReqs, chatReqs, delReqs, newReqs >>
server == << serverProjects, store >>
ghost  == << nextId, acts, appendLog, clearRun >>
vars   == << client, net, server, ghost >>

\* the ids createProject can give: one per project there is or can be created
ProjectIds == 1 .. (Len(InitialProjects) + Cardinality(Names))

\* one more thing the user does
Acts == acts < MaxActions /\ acts' = acts + 1


\* ------------------------------------------------ service: Project Store
\* the ids of a sequence of project records
IdsOf(ps) == { ps[i].id : i \in 1 .. Len(ps) }

NamesOf(ps) == { ps[i].name : i \in 1 .. Len(ps) }

\* the messages of project p in a message table
MessagesOf(st, p) == { m \in st : m.project = p }

\* a set of message records as a sequence, lowest ordinal first
RECURSIVE ByOrdinal(_)
ByOrdinal(S) ==
    IF S = {} THEN <<>>
    ELSE LET m == CHOOSE x \in S : \A y \in S : x.ordinal <= y.ordinal
         IN  << m >> \o ByOrdinal(S \ { m })

\* getHistory(projectId) -> ordered sequence of Message
GetHistory(p) == ByOrdinal(MessagesOf(store, p))

\* (an ordinal that repeats the last one instead of following it)
NextOrdinal_NoIncrement(st, p) ==
    IF MessagesOf(st, p) = {} THEN 1
    ELSE CHOOSE n \in { m.ordinal : m \in MessagesOf(st, p) } :
            \A m \in MessagesOf(st, p) : m.ordinal <= n

\* the ordinal appendMessage gives the next message of p
NextOrdinal(st, p) ==
    IF MessagesOf(st, p) = {} THEN 1
    ELSE 1 + (CHOOSE n \in { m.ordinal : m \in MessagesOf(st, p) } :
                 \A m \in MessagesOf(st, p) : m.ordinal <= n)

\* appendMessage(projectId, role, content): atomic append with the next ordinal
AppendMessage(st, p, role, content, turn) ==
    st \cup { [ project |-> p, role |-> role, content |-> content,
                ordinal |-> NextOrdinal(st, p), turn |-> turn ] }

\* clearHistory(projectId): deletes all messages of the project
ClearHistory(st, p) == { m \in st : m.project # p }

\* deleteProject(id): the project's record, its messages go with it
DeleteProject(ps, p) == SelectSeq(ps, LAMBDA x : x.id # p)

\* what the append log remembers of an appended message
Logged(role, content, turn) == [ role |-> role, content |-> content, turn |-> turn ]

\* a step of the orchestrator that persists a message of turn `turn`
Persist(p, role, content, turn) ==
    /\ store' = AppendMessage(store, p, role, content, turn)
    /\ appendLog' = [ appendLog EXCEPT ![p] = Append(@, Logged(role, content, turn)) ]
    /\ clearRun' = [ clearRun EXCEPT ![p] = 0 ]

\* GET /chat/history -> [ {id, content, isUser} ]; owner is bookkeeping: the
\* project the message belongs to
ToChatMessage(m) ==
    [ content |-> m.content, isUser |-> (m.role = "user"), owner |-> m.project ]

HistoryPayload(p) ==
    LET h == GetHistory(p) IN [ i \in 1 .. Len(h) |-> ToChatMessage(h[i]) ]

\* ------------------------------------------------ texts of a turn
\* the final text the LLM gives turn id; distinct per turn
ReplyText(id) == << "reply", ToString(id) >>

\* the assistant message persisted when the iteration ceiling is reached
LimitText == << "iteration limit reached" >>

\* the serialized result of a tool call, success or structured error
ToolResult(outcome) == << "tool", outcome >>

\* ------------------------------------------------ Chat.tsx: effects
\* useEffect(..., [activeProject]): fetchChatHistory when the value changed
HistoryEffect(newActive) ==
    IF newActive # activeProject /\ newActive # NoProject
    THEN histReqs \cup { [ project |-> newActive, phase |-> "req", data |-> <<>> ] }
    ELSE histReqs

\* fetchChatProjects(): the GET it puts in flight
ProjectsRequest(caller) ==
    [ phase |-> "req", data |-> <<>>,
      \* bookkeeping: where fetchChatProjects was called from
      caller |-> caller ]

\* ------------------------------------------------ Chat.tsx: the user
\* onChange of the input box, which is disabled={isLoading || !activeProject}
TypeInput(t) ==
    /\ ~(isLoading \/ activeProject = NoProject)
    /\ t # input
    /\ Acts
    /\ input' = t
    /\ UNCHANGED << messages, isLoading, projects, activeProject,
                    isNewProjectModalOpen, net, server, nextId, appendLog, clearRun >>

\* onSelectProject={setActiveProject}: a click on an entry of the project list
SelectProject(p) ==
    /\ p \in IdsOf(projects)
    /\ p # activeProject
    /\ Acts
    /\ activeProject' = p
    /\ histReqs' = HistoryEffect(p)
    /\ UNCHANGED << messages, input, isLoading, projects, isNewProjectModalOpen,
                    projReqs, chatReqs, delReqs, newReqs, server,
                    nextId, appendLog, clearRun >>

\* handleSend's early return: nothing to send, a send in progress, no project
SendBlocked == Trim(input) = <<>> \/ isLoading \/ activeProject = NoProject

\* the input and the Send button: disabled={isLoading || !activeProject}
SendDisabled == isLoading \/ activeProject = NoProject

\* (a send that forgets to raise the loading flag)
SendLoading_Forgotten == FALSE

\* setIsLoading(...) of handleSend before the request
SendLoading == TRUE

\* the body of POST /chat
ChatRequest(id) ==
    [ id |-> id, project |-> activeProject, message |-> input,
      st |-> "AwaitingUser", rounds |-> 0, pending |-> <<>>,
      ok |-> FALSE, reply |-> <<>>,
      \* bookkeeping: the calls of the round and the results persisted for them
      calls |-> <<>>, results |-> <<>> ]

\* the ChatMessage handleSend shows for the user's text
UserMessage == [ content |-> input, isUser |-> TRUE, owner |-> activeProject ]

\* (a reply that shows the text sent instead of the text returned)
LlmMessage_Echo(r) == [ content |-> r.message, isUser |-> FALSE, owner |-> r.project ]

\* the ChatMessage handleSend shows for the response of request r
LlmMessage(r) == [ content |-> r.reply, isUser |-> FALSE, owner |-> r.project ]

\* handleSend up to the await: a Send click or an Enter key press
HandleSend ==
    /\ ~SendBlocked
    /\ Acts
    /\ messages' = Append(messages, UserMessage)
    /\ input' = <<>>
    /\ isLoading' = SendLoading
    /\ chatReqs' = chatReqs \cup { ChatRequest(nextId + 1) }
    /\ nextId' = nextId + 1
    /\ UNCHANGED << projects, activeProject, isNewProjectModalOpen,
                    projReqs, histReqs, delReqs, newReqs, server, appendLog, clearRun >>

\* a chat request whose turn has ended and whose response is on its way
Answered(r) == r.st \in { "Done", "Aborted" }

\* (a finally that leaves the loading flag up)
SettledLoading_Stuck == TRUE

\* setIsLoading(...) of handleSend's finally, reached from try and from catch
SettledLoading == FALSE

\* handleSend after the await, the request fulfilled
ChatResponse(r) ==
    /\ Answered(r) /\ r.ok
    /\ messages' = Append(messages, LlmMessage(r))
    /\ isLoading' = SettledLoading
    /\ chatReqs' = chatReqs \ { r }
    /\ UNCHANGED << input, projects, activeProject, isNewProjectModalOpen,
                    projReqs, histReqs, delReqs, newReqs, server,
                    nextId, acts, appendLog, clearRun >>

\* handleSend after the await, the request rejected: catch, then finally
ChatError(r) ==
    /\ Answered(r) /\ ~r.ok
    /\ isLoading' = SettledLoading
    /\ chatReqs' = chatReqs \ { r }
    /\ UNCHANGED << messages, input, projects, activeProject,
                    isNewProjectModalOpen, projReqs, histReqs, delReqs, newReqs,
                    server, nextId, acts, appendLog, clearRun >>

\* (a clearChat that deletes the project)
ClearChatEndpoint_Projects == "projects"

\* the endpoint clearChat sends its DELETE to
ClearChatEndpoint == "history"

\* clearChat up to the await: a click on the header's "Delete Project" button
ClearChat ==
    /\ activeProject # NoProject
    /\ Acts
    /\ delReqs' = delReqs \cup { [ project |-> activeProject,
                                   endpoint |-> ClearChatEndpoint,
                                   phase |-> "req" ] }
    /\ UNCHANGED << client, projReqs, histReqs, chatReqs, newReqs, server,
                    nextId, appendLog, clearRun >>

\* clearChat after the await: empty the view and fetch the project list
ClearChatResponse(r) ==
    /\ r \in delReqs /\ r.phase = "resp"
    /\ messages' = <<>>
    /\ projReqs' = projReqs \cup { ProjectsRequest("clearChat") }
    /\ delReqs' = delReqs \ { r }
    /\ UNCHANGED << input, isLoading, projects, activeProject,
                    isNewProjectModalOpen, histReqs, chatReqs, newReqs, server,
                    nextId, acts, appendLog, clearRun >>

\* fetchChatProjects after the await
ProjectsResponse(r) ==
    /\ r \in projReqs /\ r.phase = "resp"
    /\ projects' = r.data
    /\ activeProject' = IF Len(r.data) > 0 THEN r.data[1].id ELSE activeProject
    /\ histReqs' = HistoryEffect(activeProject')
    /\ projReqs' = projReqs \ { r }
    /\ UNCHANGED << messages, input, isLoading, isNewProjectModalOpen,
                    chatReqs, delReqs, newReqs, server, nextId, acts, appendLog, clearRun >>

\* fetchChatHistory after the await
HistoryResponse(r) ==
    /\ r \in histReqs /\ r.phase = "resp"
    /\ messages' = r.data
    /\ histReqs' = histReqs \ { r }
    /\ UNCHANGED << input, isLoading, projects, activeProject,
                    isNewProjectModalOpen, projReqs, chatReqs, delReqs, newReqs,
                    server, nextId, acts, appendLog, clearRun >>

\* onNewProject: the "New Project" button opens the dialog
OpenNewProject ==
    /\ ~isNewProjectModalOpen
    /\ Acts
    /\ isNewProjectModalOpen' = TRUE
    /\ UNCHANGED << messages, input, isLoading, projects, activeProject,
                    net, server, nextId, appendLog, clearRun >>

\* onClose: the dialog's Cancel button
CloseNewProject ==
    /\ isNewProjectModalOpen
    /\ Acts
    /\ isNewProjectModalOpen' = FALSE
    /\ UNCHANGED << messages, input, isLoading, projects, activeProject,
                    net, server, nextId, appendLog, clearRun >>

\* handleNewProject up to the await: the dialog's Create button, a name typed
HandleNewProject(name) ==
    /\ isNewProjectModalOpen
    /\ Acts
    /\ newReqs' = newReqs \cup { [ name |-> name, phase |-> "req", id |-> NoProject ] }
    /\ UNCHANGED << client, projReqs, histReqs, chatReqs, delReqs, server,
                    nextId, appendLog, clearRun >>

\* handleNewProject after the await
NewProjectResponse(r) ==
    /\ r \in newReqs /\ r.phase = "resp"
    /\ projects' = Append(projects, ProjectOf(r.id, r.name))
    /\ activeProject' = r.id
    /\ isNewProjectModalOpen' = FALSE
    /\ histReqs' = HistoryEffect(r.id)
    /\ newReqs' = newReqs \ { r }
    /\ UNCHANGED << messages, input, isLoading, projReqs, chatReqs, delReqs,
                    server, nextId, acts, appendLog, clearRun >>

\* the catch branches of fetchChatProjects, fetchChatHistory, clearChat and
\* handleNewProject: the request is rejected and only logged
RequestRejected ==
    /\ \/ \E r \in projReqs : projReqs' = projReqs \ { r }
                              /\ UNCHANGED << histReqs, delReqs, newReqs >>
       \/ \E r \in histReqs : histReqs' = histReqs \ { r }
                              /\ UNCHANGED << projReqs, delReqs, newReqs >>
       \/ \E r \in delReqs  : delReqs' = delReqs \ { r }
                              /\ UNCHANGED << projReqs, histReqs, newReqs >>
       \/ \E r \in newReqs  : newReqs' = newReqs \ { r }
                              /\ UNCHANGED << projReqs, histReqs, delReqs >>
    /\ UNCHANGED << client, chatReqs, server, nextId, acts, appendLog, clearRun >>

\* ------------------------------------------------ service: endpoints
\* GET /chat/projects: listProjects(), creation order
ServeProjects(r) ==
    /\ r \in projReqs /\ r.phase = "req"
    /\ projReqs' = (projReqs \ { r })
                      \cup { [ r EXCEPT !.phase = "resp", !.data = serverProjects ] }
    /\ UNCHANGED << client, histReqs, chatReqs, delReqs, newReqs, server,
                    nextId, acts, appendLog, clearRun >>

\* GET /chat/history?project_id=...
ServeHistory(r) ==
    /\ r \in histReqs /\ r.phase = "req"
    /\ histReqs' = (histReqs \ { r })
                      \cup { [ r EXCEPT !.phase = "resp", !.data = HistoryPayload(r.project) ] }
    /\ UNCHANGED << client, projReqs, chatReqs, delReqs, newReqs, server,
                    nextId, acts, appendLog, clearRun >>

\* DELETE /chat/history?project_id=... (clears history, keeps project) and
\* DELETE /chat/projects?project_id=... (the delete cascades to the messages)
ServeDelete(r) ==
    /\ r \in delReqs /\ r.phase = "req"
    /\ store' = ClearHistory(store, r.project)
    /\ serverProjects' = IF r.endpoint = "history" THEN serverProjects
                         ELSE DeleteProject(serverProjects, r.project)
    /\ appendLog' = [ appendLog EXCEPT ![r.project] = <<>> ]
    /\ clearRun' = [ clearRun EXCEPT ![r.project] = IF @ < 2 THEN @ + 1 ELSE @ ]
    /\ delReqs' = (delReqs \ { r }) \cup { [ r EXCEPT !.phase = "resp" ] }
    /\ UNCHANGED << client, projReqs, histReqs, chatReqs, newReqs, nextId, acts >>

\* the id createProject gives the next project
FreshId ==
    1 + (CHOOSE n \in IdsOf(serverProjects) \cup { 0 } :
            \A i \in IdsOf(serverProjects) : i <= n)

\* POST /chat/projects {name}: createProject, which refuses a name in use
ServeCreate(r) ==
    /\ r \in newReqs /\ r.phase = "req"
    /\ IF r.name \in NamesOf(serverProjects)
       THEN /\ newReqs' = newReqs \ { r }
            /\ UNCHANGED serverProjects
       ELSE /\ FreshId \in ProjectIds
            /\ serverProjects' = Append(serverProjects, ProjectOf(FreshId, r.name))
            /\ newReqs' = (newReqs \ { r })
                             \cup { [ r EXCEPT !.phase = "resp", !.id = FreshId ] }
    /\ UNCHANGED << client, projReqs, histReqs, chatReqs, delReqs, store,
                    nextId, acts, appendLog, clearRun >>

\* ------------------------------------------------ service: Agent Orchestrator
\* a turn between its user message and its end
InTurn(r) == r.st \in { "CallingLLM", "DispatchingTools" }

\* turns of one project run one at a time, in submission order
MayStart(r) ==
    /\ r.st = "AwaitingUser"
    /\ \A q \in chatReqs : q.project = r.project =>
           /\ ~InTurn(q)
           /\ (q.st = "AwaitingUser" => r.id <= q.id)

Becomes(r, q) == chatReqs' = (chatReqs \ { r }) \cup { q }

\* AwaitingUser -> CallingLLM: the user message is persisted
StartTurn(r) ==
    /\ r \in chatReqs /\ MayStart(r)
    /\ IF r.project \in IdsOf(serverProjects)
       THEN /\ Persist(r.project, "user", r.message, r.id)
            /\ Becomes(r, [ r EXCEPT !.st = "CallingLLM" ])
       ELSE /\ Becomes(r, [ r EXCEPT !.st = "Aborted" ])
            /\ UNCHANGED << store, appendLog, clearRun >>
    /\ UNCHANGED << client, projReqs, histReqs, delReqs, newReqs, serverProjects,
                    nextId, acts >>

\* CallingLLM -> Done: the response is a final text, persisted and returned
LLMFinal(r) ==
    /\ r \in chatReqs /\ r.st = "CallingLLM"
    /\ Persist(r.project, "assistant", ReplyText(r.id), r.id)
    /\ Becomes(r, [ r EXCEPT !.st = "Done", !.ok = TRUE, !.reply = ReplyText(r.id) ])
    /\ UNCHANGED << client, projReqs, histReqs, delReqs, newReqs, serverProjects,
                    nextId, acts >>

\* the responses of the LLM that are tool calls: a list of calls, each with the
\* way its dispatch will end
CallLists == { << "ok" >>, << "invalid", "failed" >> }

\* (a ceiling that is off by one)
BelowCeiling_OffByOne(rounds) == rounds <= MaxRounds

\* whether a turn that has run `rounds` dispatch rounds may run another
BelowCeiling(rounds) == rounds < MaxRounds

\* CallingLLM -> DispatchingTools, or -> Aborted at the iteration ceiling, with
\* an assistant message that explains it
LLMToolCalls(r, calls) ==
    /\ r \in chatReqs /\ r.st = "CallingLLM"
    /\ IF BelowCeiling(r.rounds)
       THEN /\ Becomes(r, [ r EXCEPT !.st = "DispatchingTools",
                                     !.rounds = @ + 1, !.pending = calls,
                                     !.calls = calls, !.results = <<>> ])
            /\ UNCHANGED << store, appendLog, clearRun >>
       ELSE /\ Persist(r.project, "assistant", LimitText, r.id)
            /\ Becomes(r, [ r EXCEPT !.st = "Aborted", !.ok = TRUE, !.reply = LimitText ])
    /\ UNCHANGED << client, projReqs, histReqs, delReqs, newReqs, serverProjects,
                    nextId, acts >>

\* (a dispatch that goes back to the LLM after the first call)
AfterDispatch_FirstOnly(rest) == "CallingLLM"

\* the state after the dispatch of a call that leaves `rest` to dispatch
AfterDispatch(rest) == IF rest = <<>> THEN "CallingLLM" ELSE "DispatchingTools"

\* DispatchingTools: the next call of the response is executed and its result,
\* success or error, persisted as a tool message; after the last, -> CallingLLM
DispatchTool(r) ==
    /\ r \in chatReqs /\ r.st = "DispatchingTools"
    /\ Persist(r.project, "tool", ToolResult(Head(r.pending)), r.id)
    /\ Becomes(r, [ r EXCEPT !.pending = Tail(@), !.st = AfterDispatch(Tail(r.pending)),
                              !.results = Append(@, ToolResult(Head(r.pending))) ])
    /\ UNCHANGED << client, projReqs, histReqs, delReqs, newReqs, serverProjects,
                    nextId, acts >>

\* ProviderError: the LLM call fails or times out; the turn is Aborted and the
\* request answered with an error
LLMError(r) ==
    /\ r \in chatReqs /\ r.st = "CallingLLM"
    /\ Becomes(r, [ r EXCEPT !.st = "Aborted" ])
    /\ UNCHANGED << client, projReqs, histReqs, delReqs, newReqs, server,
                    nextId, acts, appendLog, clearRun >>

\* ------------------------------------------------ the system
Init ==
    /\ messages = <<>>
    /\ input = <<>>
    /\ isLoading = FALSE
    /\ projects = <<>>
    /\ activeProject = NoProject
    /\ isNewProjectModalOpen = FALSE
    \* useEffect(() => { fetchChatProjects(); }, []) has run
    /\ projReqs = { ProjectsRequest("mount") }
    /\ histReqs = {}
    /\ chatReqs = {}
    /\ delReqs = {}
    /\ newReqs = {}
    /\ serverProjects \in InitialLists
    /\ store = {}
    /\ nextId = 0
    /\ acts = 0
    /\ appendLog = [ p \in ProjectIds |-> <<>> ]
    /\ clearRun = [ p \in ProjectIds |-> 0 ]

Next ==
    \/ \E t \in Inputs : TypeInput(t)
    \/ \E p \in ProjectIds : SelectProject(p)
    \/ HandleSend
    \/ \E r \in chatReqs : ChatResponse(r)
    \/ \E r \in chatReqs : ChatError(r)
    \/ ClearChat
    \/ \E r \in delReqs : ClearChatResponse(r)
    \/ \E r \in projReqs : ProjectsResponse(r)
    \/ \E r \in histReqs : HistoryResponse(r)
    \/ OpenNewProject
    \/ CloseNewProject
    \/ \E n \in Names : HandleNewProject(n)
    \/ \E r \in newReqs : NewProjectResponse(r)
    \/ RequestRejected
    \/ \E r \in projReqs : ServeProjects(r)
    \/ \E r \in histReqs : ServeHistory(r)
    \/ \E r \in delReqs : ServeDelete(r)
    \/ \E r \in newReqs : ServeCreate(r)
    \/ \E r \in chatReqs : StartTurn(r)
    \/ \E r \in chatReqs : LLMFinal(r)
    \/ \E r \in chatReqs, calls \in CallLists : LLMToolCalls(r, calls)
    \/ \E r \in chatReqs : DispatchTool(r)
    \/ \E r \in chatReqs : LLMError(r)

Spec == Init /\ [][Next]_vars

\* a step of a turn on the service: the orchestrator's loop runs on until the
\* turn is Done or Aborted
TurnStep ==
    \E r \in chatReqs :
        \/ StartTurn(r)
        \/ LLMFinal(r)
        \/ \E calls \in CallLists : LLMToolCalls(r, calls)
        \/ DispatchTool(r)
        \/ LLMError(r)

\* the promise of axios.post settles and handleSend runs on after its await
Settle == \E r \in chatReqs : ChatResponse(r) \/ ChatError(r)

\* the service keeps serving a turn it has accepted, and a settled promise has
\* its continuation run
FairSpec == Spec /\ WF_vars(TurnStep) /\ WF_vars(Settle)

\* ------------------------------------------------ properties
Last(s) == s[Len(s)]

\* the chat requests of project p that are in flight
TurnsOf(p) == { r \in chatReqs : r.project = p }

\* C1: for every project at most one turn is in progress at any time: no
\* second chat request for a project is started before the first has finished,
\* whatever the user clicks or types.
C1_OneTurnPerProject ==
    \A p \in ProjectIds : Cardinality(TurnsOf(p)) <= 1

\* C1, its case: a turn of the project on display is in progress and handleSend
\* returns early on a Send click or an Enter key press.
C1_Witness ==
    \E r \in chatReqs : InTurn(r) /\ r.project = activeProject /\ SendBlocked

\* the final assistant messages persisted for turn id in project p
FinalsOf(p, id) ==
    { m \in MessagesOf(store, p) : m.turn = id /\ m.role = "assistant" }

MaxCallList ==
    CHOOSE n \in { Len(c) : c \in CallLists } : \A c \in CallLists : Len(c) <= n

\* the steps a turn can still take, at most
TurnMeasure(r) ==
    CASE r.st = "AwaitingUser"     -> 2 + MaxRounds * (MaxCallList + 1)
      [] r.st = "CallingLLM"       -> 1 + (MaxRounds - r.rounds) * (MaxCallList + 1)
      [] r.st = "DispatchingTools" -> 1 + (MaxRounds - r.rounds) * (MaxCallList + 1)
                                        + Len(r.pending)
      [] OTHER                     -> 0

\* C3: every turn terminates: however often the LLM answers with tool calls,
\* a turn never runs more than MaxRounds dispatch rounds, and every step of a
\* turn brings its end closer; a tool-call response at the ceiling ends the turn
\* Aborted, with the explanatory assistant message persisted last in the
\* project's history and returned.
C3_IterationCeiling ==
    [][ \A q \in chatReqs' :
          /\ q.rounds <= MaxRounds
          /\ \A r \in chatReqs :
                (r.id = q.id /\ r # q) =>
                    TurnMeasure(q) >= 0 /\ TurnMeasure(q) < TurnMeasure(r)
          /\ \A r \in chatReqs :
                (r.id = q.id /\ r.st = "CallingLLM" /\ q.st = "DispatchingTools")
                    => r.rounds < MaxRounds /\ q.rounds = r.rounds + 1
          /\ \A r \in chatReqs :
                (r.id = q.id /\ r.st = "CallingLLM" /\ q.st = "Aborted" /\ q.ok) =>
                    /\ r.rounds = MaxRounds
                    /\ q.reply = LimitText
                    /\ LET h == ByOrdinal(MessagesOf(store', q.project))
                       IN  /\ h # <<>>
                           /\ Last(h).role = "assistant"
                           /\ Last(h).content = LimitText
                           /\ Last(h).turn = q.id
      ]_vars

\* C3, its case: the LLM answered with tool calls every time and the turn was
\* aborted at the ceiling.
C3_Witness ==
    \E r \in chatReqs :
        r.st = "Aborted" /\ r.ok /\ r.rounds = MaxRounds /\ r.reply = LimitText

\* the history of p is in strictly increasing ordinal order
OrdinalsIncrease(h) ==
    \A i, j \in 1 .. Len(h) : i < j => h[i].ordinal < h[j].ordinal

\* C4: getHistory returns a project's messages in strictly increasing ordinal
\* order, which is the order they were appended in; no two messages of a
\* project share an ordinal; the messages of a turn submitted earlier come
\* before those of a turn submitted later.
C4_HistoryInAppendOrder ==
    \A p \in ProjectIds :
        LET h == GetHistory(p)
        IN  /\ OrdinalsIncrease(h)
            /\ Len(h) = Cardinality(MessagesOf(store, p))
            /\ \A m, n \in MessagesOf(store, p) : m.ordinal = n.ordinal => m = n
            /\ [ i \in 1 .. Len(h) |-> Logged(h[i].role, h[i].content, h[i].turn) ]
                  = appendLog[p]
            /\ \A i, j \in 1 .. Len(h) : i < j => h[i].turn <= h[j].turn
            /\ \A r \in histReqs :
                  (r.phase = "resp" /\ r.project = p) =>
                      \A i \in 1 .. Len(r.data) : r.data[i].owner = p

\* C4, its case: two turns were submitted one after the other for one project
\* and both are in its history.
C4_Witness ==
    \E p \in ProjectIds :
        \E m, n \in MessagesOf(store, p) :
            m.role = "user" /\ n.role = "user" /\ m.turn < n.turn

\* C5: in DispatchingTools every call of the LLM's response gets exactly one
\* persisted tool message, in the order of the calls, whether it succeeded,
\* failed validation or failed in execution; no call aborts the turn, and after
\* the last one the orchestrator is back in CallingLLM.
C5_EveryCallAnswered ==
    [][ \A r \in chatReqs :
          (r.st = "DispatchingTools" /\ r \notin chatReqs') =>
              \E q \in chatReqs' :
                  /\ q.id = r.id
                  /\ q.st \in { "DispatchingTools", "CallingLLM" }
                  /\ \E m \in store' :
                        /\ m \notin store
                        /\ store' = store \cup { m }
                        /\ m.project = r.project /\ m.role = "tool" /\ m.turn = r.id
                        /\ m.content = ToolResult(r.calls[Len(r.results) + 1])
                        /\ \A o \in MessagesOf(store, r.project) : o.ordinal < m.ordinal
                  /\ q.st = "DispatchingTools" => Len(q.results) < Len(q.calls)
                  /\ q.st = "CallingLLM" =>
                        q.results = [ i \in 1 .. Len(r.calls) |-> ToolResult(r.calls[i]) ]
      ]_vars

\* C5, its case: a round of two calls, one failing validation and one failing
\* in execution, has been dispatched and the turn is back in CallingLLM.
C5_Witness ==
    \E r \in chatReqs :
        /\ r.st = "CallingLLM"
        /\ r.calls = << "invalid", "failed" >>
        /\ r.results = << ToolResult("invalid"), ToolResult("failed") >>

\* C6 (as claimed): when the LLM call of a turn fails, the turn is Aborted, the
\* request is not sent again, and the user is shown a message that describes
\* the failure: the conversation on display gains a message that is not the
\* user's.
C6_FailureShown ==
    [][ \A r \in chatReqs :
          (Answered(r) /\ ~r.ok /\ r \notin chatReqs') =>
              /\ r.st = "Aborted"
              /\ \A q \in chatReqs' : q.id # r.id
              /\ Len(messages') = Len(messages) + 1
              /\ ~Last(messages').isUser
      ]_vars

\* C7 (as claimed): when the "Delete Project" action on project P completes, P
\* is no longer among the projects and no message of P remains.
C7_DeleteDestroysProject ==
    [][ \A r \in delReqs :
          ClearChatResponse(r) =>
              /\ r.project \notin IdsOf(serverProjects')
              /\ MessagesOf(store', r.project) = {}
      ]_vars

\* C8: clearHistory is idempotent and keeps the project: after a clear, and
\* after a second clear that found nothing to clear, the history of the project
\* is empty and the project is still in the project list.
C8_ClearIdempotent ==
    \A p \in ProjectIds :
        clearRun[p] >= 1 =>
            /\ GetHistory(p) = <<>>
            /\ HistoryPayload(p) = <<>>
            /\ p \in IdsOf(serverProjects)

\* C8, its case: the history of a project was cleared twice in a row.
C8_Witness ==
    \E p \in ProjectIds : clearRun[p] = 2 /\ p \in IdsOf(serverProjects)

\* C9 (as claimed): while a turn of project A is in progress, a turn of another
\* project B can be submitted: with B on display and no turn of B in progress,
\* the input and the Send button are enabled.
C9_OtherProjectCanSend ==
    \A r \in chatReqs :
        ( /\ activeProject # NoProject
          /\ activeProject # r.project
          /\ TurnsOf(activeProject) = {} ) => ~SendDisabled

\* C10 (as claimed): whenever no history request and no chat request is
\* outstanding, every message on display belongs to the active project.
C10_NoMessageCrossesProjects ==
    (histReqs = {} /\ chatReqs = {}) =>
        \A i \in 1 .. Len(messages) : messages[i].owner = activeProject

\* C11 (as claimed): a conversation consists of whole turns: every assistant or
\* tool message in the history of a project comes after the user message of
\* its turn, and every reply on display comes after a user message of its
\* project on display, also when the history is cleared during a turn.
C11_WholeTurns ==
    /\ \A m \in store :
           m.role # "user" =>
               \E u \in MessagesOf(store, m.project) :
                   u.role = "user" /\ u.turn = m.turn /\ u.ordinal < m.ordinal
    /\ \A i \in 1 .. Len(messages) :
           ~messages[i].isUser =>
               \E j \in 1 .. (i - 1) :
                   messages[j].isUser /\ messages[j].owner = messages[i].owner

\* the message handleSend displayed for request r
SentMessage(r) == [ content |-> r.message, isUser |-> TRUE, owner |-> r.project ]

\* no clear has taken the user message of request r from the history, and
\* none is under way
NotCleared(r) ==
    /\ delReqs = {} /\ delReqs' = {}
    /\ \/ r.st = "AwaitingUser"
       \/ \E m \in MessagesOf(store, r.project) : m.role = "user" /\ m.turn = r.id

\* C12 (as claimed): while a project stays active and its history is not
\* cleared, the conversation on display is append-only: a user message sent in
\* the active project and displayed stays displayed in every step, and when
\* its request is answered the reply is displayed after it, also when the
\* history request of the project's selection completes after the send.
C12_DisplayAppendOnly ==
    [][ \A r \in chatReqs :
          ( /\ r.project = activeProject
            /\ activeProject' = activeProject
            /\ NotCleared(r)
            /\ \E i \in 1 .. Len(messages) : messages[i] = SentMessage(r) ) =>
              \E i \in 1 .. Len(messages') :
                  /\ messages'[i] = SentMessage(r)
                  /\ (r \notin chatReqs' /\ r.ok) =>
                         \E j \in (i + 1) .. Len(messages') :
                             messages'[j] = LlmMessage(r)
      ]_vars

\* C13 (as claimed): in every reachable state the active project is empty or
\* the id of a project in the project list, whatever the order in which the
\* responses of project-list fetches and project creations arrive.
C13_ActiveProjectListed ==
    activeProject = NoProject \/ activeProject \in IdsOf(projects)

\* C14 (as claimed): the project list on display is in creation order and
\* holds each project once, whatever the order in which the responses of
\* project-list fetches and project creations arrive: ids are given in
\* creation order, so the ids of the list increase strictly.
C14_ProjectsOnceInOrder ==
    \A i, j \in 1 .. Len(projects) : i < j => projects[i].id < projects[j].id

\* C15: the loading flag is up exactly while a chat request is outstanding: a
\* send raises it, the end of the request lowers it whether the request was
\* fulfilled or rejected, so that every send is followed by a state in which
\* sending is enabled again; a rejected request adds no message and leaves the
\* conversation on display, the user's message with it, as it was.
C15_LoadingWhileOutstanding ==
    /\ [](isLoading <=> chatReqs # {})
    /\ [][ /\ nextId' # nextId => ~isLoading /\ isLoading'
           /\ \A r \in chatReqs :
                 (\A q \in chatReqs' : q.id # r.id) =>
                     /\ ~isLoading'
                     /\ ~r.ok => messages' = messages
         ]_vars
    /\ (isLoading ~> ~SendDisabled)

\* C15, its case: the turn of the only message sent was started and its LLM
\* call failed; the request is over, the user's message is displayed with no
\* reply and sending is enabled.
C15_Witness ==
    /\ nextId = 1 /\ chatReqs = {} /\ ~SendDisabled
    /\ Len(messages) = 1 /\ messages[1].isUser
    /\ \E m \in store : m.turn = 1 /\ m.role = "user"
    /\ \A m \in store : m.role # "assistant"

\* C16 (as claimed): clearing the history of the active project changes only
\* that project's messages: neither the step that ends clearChat nor the
\* response of the project-list fetch it issues changes the active project or
\* the projects of the list, at whichever position the active project is.
C16_ClearKeepsSelection ==
    [][ /\ \A r \in delReqs :
              ClearChatResponse(r) =>
                  /\ activeProject' = activeProject
                  /\ IdsOf(projects') = IdsOf(projects)
        /\ \A r \in projReqs :
              (r.caller = "clearChat" /\ ProjectsResponse(r)) =>
                  /\ activeProject' = activeProject
                  /\ IdsOf(projects') = IdsOf(projects)
      ]_vars

=============================================================================
